---- MODULE Spec2Model ----
(***************************************************************************)
(* A model of the Bags API client (package bags): request construction     *)
(* (newRequest), the response pipeline (do), the operation wrappers and    *)
(* the streaming multipart upload of CreateTokenInfoAndMetadata.           *)
(*                                                                         *)
(* Strings are sequences of atoms.  An atom is either one of the special   *)
(* characters the code's string functions look at ("/", ".", "?", " ",     *)
(* "+", "=") or an opaque non-empty run of other characters ("api",        *)
(* "token-launch", ...).                                                   *)
(***************************************************************************)
EXTENDS Integers, Sequences, FiniteSets, TLC

\* ------------------------------------------------------------------ bounds
\* Longest relative path (in atoms) handed to newRequest in SpecPath.
MaxRelLen == 4
\* Most chunks the attachment source yields before it ends or fails.
MaxChunks == 1

\* ------------------------------------------------------- program constants
\* client.go:132  len(bodySnippet) > 512
SnippetCap == 512
\* client.go:123  io.LimitReader(res.Body, 1<<20)
ReadLimit == 1048576
\* client.go:133  the marker appended to a truncated snippet (7 bytes in the
\* source file)
EllipsisLen == 7

\* ----------------------------------------------------------------- strings
Min(a, b) == IF a < b THEN a ELSE b

RECURSIVE TrimLeft(_)
TrimLeft(s) == IF s # <<>> /\ Head(s) = " " THEN TrimLeft(Tail(s)) ELSE s

RECURSIVE TrimRight(_)
TrimRight(s) ==
    IF s # <<>> /\ s[Len(s)] = " " THEN TrimRight(SubSeq(s, 1, Len(s) - 1)) ELSE s

\* strings.TrimSpace
TrimSpace(s) == TrimRight(TrimLeft(s))

\* strings.TrimSuffix(s, "/")
TrimSuffixSlash(s) ==
    IF s # <<>> /\ s[Len(s)] = "/" THEN SubSeq(s, 1, Len(s) - 1) ELSE s

\* All sequences over S of length at most n.
SeqsUpTo(S, n) == UNION { [1..m -> S] : m \in 0..n }

\* Index of the first occurrence of atom a in s, 0 when there is none.
RECURSIVE IndexFrom(_, _, _)
IndexFrom(s, a, i) ==
    IF i > Len(s) THEN 0 ELSE IF s[i] = a THEN i ELSE IndexFrom(s, a, i + 1)

IndexOf(s, a) == IndexFrom(s, a, 1)

HasPrefix(s, p) == Len(p) <= Len(s) /\ SubSeq(s, 1, Len(p)) = p

\* ------------------------------------------------------------ path.Join
\* The elements of a path: the runs of atoms between "/" separators.
RECURSIVE SplitSlash(_, _, _)
SplitSlash(s, cur, acc) ==
    IF s = <<>> THEN Append(acc, cur)
    ELSE IF Head(s) = "/" THEN SplitSlash(Tail(s), <<>>, Append(acc, cur))
    ELSE SplitSlash(Tail(s), Append(cur, Head(s)), acc)

DotDot == <<".", ".">>
Dot == <<".">>

\* path.Clean's pass over the elements: empty and "." elements are dropped,
\* ".." removes the element before it; at the root it is dropped, and in a
\* path that is not rooted a leading ".." is kept.
RECURSIVE CleanElems(_, _, _)
CleanElems(elems, rooted, out) ==
    IF elems = <<>> THEN out
    ELSE LET e == Head(elems)
             rest == Tail(elems)
         IN  IF e = <<>> \/ e = Dot THEN CleanElems(rest, rooted, out)
             ELSE IF e = DotDot
             THEN IF out # <<>> /\ out[Len(out)] # DotDot
                  THEN CleanElems(rest, rooted, SubSeq(out, 1, Len(out) - 1))
                  ELSE IF rooted THEN CleanElems(rest, rooted, out)
                  ELSE CleanElems(rest, rooted, Append(out, e))
             ELSE CleanElems(rest, rooted, Append(out, e))

RECURSIVE JoinSlash(_)
JoinSlash(elems) ==
    IF elems = <<>> THEN <<>>
    ELSE IF Len(elems) = 1 THEN Head(elems)
    ELSE Head(elems) \o <<"/">> \o JoinSlash(Tail(elems))

\* path.Clean
Clean(p) ==
    IF p = <<>> THEN Dot
    ELSE LET rooted == Head(p) = "/"
             out == CleanElems(SplitSlash(p, <<>>, <<>>), rooted, <<>>)
         IN  IF rooted THEN <<"/">> \o JoinSlash(out)
             ELSE IF out = <<>> THEN Dot ELSE JoinSlash(out)

\* path.Join(a, b): the non-empty arguments joined by "/", then cleaned; the
\* empty string when both are empty.
PathJoin(a, b) ==
    IF a = <<>> /\ b = <<>> THEN <<>>
    ELSE IF a = <<>> THEN Clean(b)
    ELSE IF b = <<>> THEN Clean(a)
    ELSE Clean(a \o <<"/">> \o b)

\* ------------------------------------------------------------------ net/url
\* A control character: url.Parse rejects a string that holds one.
Ctl == "<DEL>"

\* Scheme and authority of a URL, one atom.
Origins == {"https://public-api-v2.bags.fm"}

\* client.go:19
DefaultBaseURL == <<"https://public-api-v2.bags.fm", "/", "api", "/", "v1", "/">>

\* The path escaping of URL.String (EscapedPath): of the atoms of the model
\* only "?" and " " are escaped.
PathEscapeAtom(a) == IF a = "?" THEN "%3F" ELSE IF a = " " THEN "%20" ELSE a

PathUnescapeAtom(a) == IF a = "%3F" THEN "?" ELSE IF a = "%20" THEN " " ELSE a

EscapedPath(p) == [i \in 1..Len(p) |-> PathEscapeAtom(p[i])]

PathUnescape(p) == [i \in 1..Len(p) |-> PathUnescapeAtom(p[i])]

\* url.QueryEscape: a space becomes "+", the separators are percent-encoded.
QueryEscapeAtom(a) ==
    IF a = " " THEN "+"
    ELSE IF a = "?" THEN "%3F"
    ELSE IF a = "/" THEN "%2F"
    ELSE IF a = "=" THEN "%3D"
    ELSE a

QueryEscape(s) == [i \in 1..Len(s) |-> QueryEscapeAtom(s[i])]

\* url.Values{k: v}.Encode() for a single key.
ValuesEncode(k, v) == <<k, "=">> \o QueryEscape(v)

NoURL == [ok |-> FALSE, Origin |-> "", Path |-> <<>>, RawQuery |-> <<>>]

\* url.Parse: fails on a control character; the text before the first "?" is
\* the (escaped) path, the text after it the raw query.
urlParse(s) ==
    IF IndexOf(s, Ctl) # 0 THEN NoURL
    ELSE LET origin == IF s # <<>> /\ Head(s) \in Origins THEN Head(s) ELSE ""
             rest == IF origin # "" THEN Tail(s) ELSE s
             q == IndexOf(rest, "?")
         IN  [ok |-> TRUE,
              Origin |-> origin,
              Path |-> PathUnescape(IF q = 0 THEN rest ELSE SubSeq(rest, 1, q - 1)),
              RawQuery |-> IF q = 0 THEN <<>> ELSE SubSeq(rest, q + 1, Len(rest))]

\* URL.String: origin, escaped path (with a "/" put before a path that lacks
\* one when there is a host), then "?" and the raw query when there is one.
urlString(u) ==
    LET ep == EscapedPath(u.Path)
        sep == IF u.Origin # "" /\ ep # <<>> /\ Head(ep) # "/" THEN <<"/">> ELSE <<>>
    IN  (IF u.Origin # "" THEN <<u.Origin>> ELSE <<>>) \o sep \o ep
            \o (IF u.RawQuery # <<>> THEN <<"?">> \o u.RawQuery ELSE <<>>)

\* ------------------------------------------------------------- newRequest
\* client.go:22
UserAgentDefault == <<"bags-go/0.1">>

APIKeyValue == <<"secret-key">>

\* The request is tied to no context at all.
RequestContextBackground == "background"

\* client.go:99  http.NewRequestWithContext(ctx, ...): the request carries the
\* context the caller passed to the operation.
RequestContext == "caller"

NoRequest ==
    [ok |-> FALSE, Method |-> "", URL |-> NoURL, Body |-> "none", Ctx |-> "none",
     XApiKey |-> <<>>, Accept |-> <<>>, ContentType |-> <<>>, UserAgent |-> <<>>]

\* client.go:97  base.Path = path.Join(strings.TrimSuffix(base.Path, "/"), relPath)
JoinedPath(basePath, relPath) == PathJoin(TrimSuffixSlash(basePath), relPath)

\* BagsClient.newRequest: the request, or ok = FALSE when the base URL does
\* not parse.  A header that is not set is the empty sequence, a header that
\* is set the one-element sequence of its value.
newRequest(c, method, relPath, body, contentType) ==
    LET base == urlParse(c.BaseURL)
    IN  IF ~base.ok THEN NoRequest
        ELSE LET joined == [base EXCEPT !.Path = JoinedPath(base.Path, relPath)]
                 u == urlParse(urlString(joined))
             IN  IF ~u.ok THEN NoRequest
                 ELSE [ok |-> TRUE, Method |-> method, URL |-> u, Body |-> body,
                       Ctx |-> RequestContext,
                       XApiKey |-> <<c.APIKey>>,
                       Accept |-> <<"application/json">>,
                       ContentType |-> IF contentType # "" THEN <<contentType>> ELSE <<>>,
                       UserAgent |-> IF TrimSpace(c.UserAgent) # <<>>
                                     THEN <<TrimSpace(c.UserAgent)>> ELSE <<>>]

\* BagsClient as New builds it.
DefaultClient ==
    [BaseURL |-> DefaultBaseURL, APIKey |-> APIKeyValue, UserAgent |-> UserAgentDefault]

\* -------------------------------------------------------- response bodies
\* A JSON value: its type and, by type, a boolean, a string or a number.
\* Objects and arrays that are payloads are opaque.
JBool(b) == [t |-> "bool", b |-> b, s |-> <<>>, n |-> 0]
JStr(s) == [t |-> "str", b |-> FALSE, s |-> s, n |-> 0]
JNum(n) == [t |-> "num", b |-> FALSE, s |-> <<>>, n |-> n]
JNull == [t |-> "null", b |-> FALSE, s |-> <<>>, n |-> 0]
JObj == [t |-> "obj", b |-> FALSE, s |-> <<>>, n |-> 0]
JArr == [t |-> "arr", b |-> FALSE, s |-> <<>>, n |-> 0]

\* A response body.  kind "raw" is text that is not JSON, "null" the JSON
\* value null, "obj" a JSON object; len is its length in bytes.  A key of the
\* object is the empty sequence when the object lacks it, and the one-element
\* sequence of its value when it has it.
RawBody(n) ==
    [kind |-> "raw", len |-> n, success |-> <<>>, error |-> <<>>, status |-> <<>>,
     response |-> <<>>, message |-> <<>>]

NullBody == [RawBody(4) EXCEPT !.kind = "null"]

ObjBody(success, error, status, response, message) ==
    [kind |-> "obj", len |-> 64, success |-> success, error |-> error,
     status |-> status, response |-> response, message |-> message]

\* How encoding/json stores a key into a Go field of type want: a missing key
\* and a null leave the zero value, a value of another type is an error.
FieldOK(f, want) == f = <<>> \/ f[1].t = "null" \/ f[1].t = want

FieldSet(f, want) == f # <<>> /\ f[1].t = want

\* io.ReadAll(io.LimitReader(res.Body, 1<<20)): the bytes do reads of a body
\* (client.go:123).
DataLen(body) == Min(body.len, ReadLimit)

\* json.Unmarshal(data, &ae) for apiError (client.go:125, 145-149).
UnmarshalAPIError(body) ==
    LET valid == body.kind # "raw" /\ body.len <= ReadLimit
        okTypes == /\ FieldOK(body.success, "bool")
                   /\ FieldOK(body.error, "str")
                   /\ FieldOK(body.status, "num")
    IN  [ok |-> valid /\ (body.kind = "null" \/ okTypes),
         Success |-> body.kind = "obj" /\ FieldSet(body.success, "bool")
                        /\ body.success[1].b,
         Message |-> IF body.kind = "obj" /\ FieldSet(body.error, "str")
                     THEN body.error[1].s ELSE <<>>,
         Status |-> IF body.kind = "obj" /\ FieldSet(body.status, "num")
                    THEN body.status[1].n ELSE 0]

\* client.go:125  err == nil && (ae.Message != "" || !ae.Success)
LooksLikeAPIError(ae) == ae.ok /\ (ae.Message # <<>> \/ ~ae.Success)

\* FilledStatus without the fallback to the HTTP status code.
FilledStatusKept(ae, statusCode) == ae.Status

\* client.go:126-128  the status of the structured error
FilledStatus(ae, statusCode) == IF ae.Status = 0 THEN statusCode ELSE ae.Status

\* SnippetBytes without the cut.
SnippetBytesUncut(n) == n

\* client.go:131-134  the snippet: how many bytes of the body it holds and
\* whether the marker is appended.
SnippetBytes(n) == IF n > SnippetCap THEN SnippetCap ELSE n

SnippetMarked(n) == n > SnippetCap

\* client.go:121
Is2xx(code) == ~(code < 200 \/ code >= 300)

\* ------------------------------------------------------------------ errors
NoError ==
    [kind |-> "nil", status |-> 0, msg |-> <<>>, statusLine |-> "",
     snippetBytes |-> 0, marked |-> FALSE]

Err(kind) == [NoError EXCEPT !.kind = kind]

\* *apiError (client.go:145-157)
APIError(status, msg) == [NoError EXCEPT !.kind = "api", !.status = status, !.msg = msg]

\* fmt.Errorf("bags api error: %s: %s", res.Status, bodySnippet) (client.go:135)
GenericError(statusLine, n) ==
    [NoError EXCEPT !.kind = "generic", !.statusLine = statusLine,
                    !.snippetBytes = SnippetBytes(n), !.marked = SnippetMarked(n)]

\* The error HTTP.Do returned, passed on as it is (client.go:116-118).
TransportError(cause) == [NoError EXCEPT !.kind = "transport", !.msg = <<cause>>]

\* Length in bytes of the snippet part of a generic error's message.
SnippetLen(e) == e.snippetBytes + (IF e.marked THEN EllipsisLen ELSE 0)

\* ------------------------------------------------------ decoding a 2xx body
\* The envelope a wrapper decodes into, by the Go type of its Response field:
\* "string", "pointer" (to a struct), "slice", and "ping" for Ping's
\* struct{Message string}.
WantOf(shape) ==
    CASE shape = "string" -> "str"
      [] shape = "pointer" -> "obj"
      [] shape = "slice" -> "arr"
      [] OTHER -> "none"

\* json.NewDecoder(res.Body).Decode(v) (client.go:139)
DecodeEnvelope(body, shape) ==
    LET isObj == body.kind = "obj"
        okTypes == IF shape = "ping" THEN FieldOK(body.message, "str")
                   ELSE /\ FieldOK(body.success, "bool")
                        /\ FieldOK(body.response, WantOf(shape))
    IN  [ok |-> body.kind # "raw" /\ (body.kind = "null" \/ okTypes),
         Success |-> isObj /\ FieldSet(body.success, "bool") /\ body.success[1].b,
         RespSet |-> isObj /\ shape # "ping" /\ FieldSet(body.response, WantOf(shape)),
         RespStr |-> IF isObj /\ shape = "string" /\ FieldSet(body.response, "str")
                     THEN body.response[1].s ELSE <<>>,
         Message |-> IF isObj /\ FieldSet(body.message, "str")
                     THEN body.message[1].s ELSE <<>>]

\* ----------------------------------------------------------- BagsClient.do
\* What HTTP.Do returned: an error with its cause, or a response.
DoError(cause) ==
    [isErr |-> TRUE, cause |-> cause, StatusCode |-> 0, Status |-> "", Body |-> NullBody]

DoResponse(code, line, body) ==
    [isErr |-> FALSE, cause |-> "", StatusCode |-> code, Status |-> line, Body |-> body]

NoEnvelope ==
    [ok |-> FALSE, Success |-> FALSE, RespSet |-> FALSE, RespStr |-> <<>>, Message |-> <<>>]

\* client.go:121-136  the error do returns for a response that is not 2xx
ErrorOfNon2xx(res) ==
    LET ae == UnmarshalAPIError(res.Body)
    IN  IF LooksLikeAPIError(ae)
        THEN APIError(FilledStatus(ae, res.StatusCode), ae.Message)
        ELSE GenericError(res.Status, DataLen(res.Body))

\* BagsClient.do: the error it returns and the envelope it decoded into v.
do(res, shape) ==
    IF res.isErr THEN [err |-> TransportError(res.cause), env |-> NoEnvelope]
    ELSE IF ~Is2xx(res.StatusCode) THEN [err |-> ErrorOfNon2xx(res), env |-> NoEnvelope]
    ELSE LET env == DecodeEnvelope(res.Body, shape)
         IN  IF env.ok THEN [err |-> NoError, env |-> env]
             ELSE [err |-> Err("decode"), env |-> NoEnvelope]

\* ------------------------------------------------------ operation wrappers
Ops ==
    {"Ping", "GetFeeShareWallet", "GetTokenLifetimeFees", "GetTokenLaunchCreators",
     "CreateFeeShareConfig", "CreateTokenInfoAndMetadata", "CreateTokenLaunchConfig",
     "CreateTokenLaunchTransaction"}

\* The Go type of the Response field of the envelope each wrapper decodes.
ShapeOf(o) ==
    CASE o = "Ping" -> "ping"
      [] o \in {"GetFeeShareWallet", "GetTokenLifetimeFees",
                "CreateTokenLaunchTransaction"} -> "string"
      [] o = "GetTokenLaunchCreators" -> "slice"
      [] OTHER -> "pointer"

MethodOf(o) ==
    IF o \in {"Ping", "GetFeeShareWallet", "GetTokenLifetimeFees", "GetTokenLaunchCreators"}
    THEN "GET" ELSE "POST"

\* The request body each wrapper hands to newRequest.
BodyOf(o) ==
    IF MethodOf(o) = "GET" THEN "none"
    ELSE IF o = "CreateTokenInfoAndMetadata" THEN "pipe" ELSE "json"

ContentTypeOf(o) ==
    IF MethodOf(o) = "GET" THEN ""
    ELSE IF o = "CreateTokenInfoAndMetadata" THEN "multipart/form-data; boundary=B"
    ELSE "application/json"

\* The path of each endpoint, as the wrapper writes it.
EndpointOf(o) ==
    CASE o = "Ping" -> <<"/", "ping">>
      [] o = "GetFeeShareWallet" ->
            <<"token-launch", "/", "fee-share", "/", "wallet", "/", "twitter">>
      [] o = "GetTokenLifetimeFees" -> <<"token-launch", "/", "lifetime-fees">>
      [] o = "GetTokenLaunchCreators" -> <<"token-launch", "/", "creator", "/", "v2">>
      [] o = "CreateFeeShareConfig" ->
            <<"token-launch", "/", "fee-share", "/", "create-config">>
      [] o = "CreateTokenInfoAndMetadata" -> <<"token-launch", "/", "create-token-info">>
      [] o = "CreateTokenLaunchConfig" -> <<"token-launch", "/", "create-config">>
      [] o = "CreateTokenLaunchTransaction" ->
            <<"token-launch", "/", "create-launch-transaction">>

\* The name of the query parameter of a GET wrapper.
QueryKeyOf(o) == IF o = "GetFeeShareWallet" THEN "twitterUsername" ELSE "tokenMint"

\* The identifier the wrapper puts in its query: GetFeeShareWallet sends the
\* trimmed handle (feeshare.go:40,48), the analytics wrappers the token mint
\* as given (analytics.go:31,77).
QueryValueOf(o, input) == IF o = "GetFeeShareWallet" THEN TrimSpace(input.id) ELSE input.id

\* The relPath argument of newRequest: feeshare.go:46-51, analytics.go:30-31
\* and 76-77 append "?" and the encoded query to the endpoint path.
RelPathOf(o, input) ==
    IF o \in {"GetFeeShareWallet", "GetTokenLifetimeFees", "GetTokenLaunchCreators"}
    THEN EndpointOf(o) \o <<"?">> \o ValuesEncode(QueryKeyOf(o), QueryValueOf(o, input))
    ELSE EndpointOf(o)

\* The fields each wrapper requires to be non-blank.
RequiredOf(o) ==
    CASE o \in {"GetFeeShareWallet", "GetTokenLifetimeFees", "GetTokenLaunchCreators"} -> {"id"}
      [] o = "CreateFeeShareConfig" -> {"WalletA", "WalletB", "Payer", "BaseMint", "QuoteMint"}
      [] o = "CreateTokenInfoAndMetadata" -> {"Name", "Symbol", "ImageFilename"}
      [] o = "CreateTokenLaunchConfig" -> {"LaunchWallet"}
      [] o = "CreateTokenLaunchTransaction" -> {"IPFS", "TokenMint", "Wallet", "ConfigKey"}
      [] OTHER -> {}

\* Valid comparing the fields with "" instead of trimming them.
ValidUntrimmed(o, input) ==
    /\ ~input.isNil
    /\ \A f \in RequiredOf(o) : input[f] # <<>>
    /\ o = "CreateTokenInfoAndMetadata" => ~input.Image.isNil

\* The local validation at the head of each wrapper: TRUE when the call goes
\* on to build a request.
Valid(o, input) ==
    /\ ~input.isNil
    /\ \A f \in RequiredOf(o) : TrimSpace(input[f]) # <<>>
    /\ o = "CreateTokenInfoAndMetadata" => ~input.Image.isNil

\* ----------------------------------------------------------------- results
NoValue == [t |-> "none", s |-> <<>>, isNil |-> TRUE]

StrValue(s) == [t |-> "str", s |-> s, isNil |-> FALSE]

ObjValue == [t |-> "obj", s |-> <<>>, isNil |-> FALSE]

SliceValue(set) == [t |-> "slice", s |-> <<>>, isNil |-> ~set]

Result(err, val) == [err |-> err, val |-> val]

\* strings.ToLower(out.Message) != "pong" (client.go:60)
IsPong(m) == m \in {<<"pong">>, <<"PONG">>, <<"Pong">>}

\* EnvelopeRejected comparing the response with "" instead of trimming it.
EnvelopeRejectedUntrimmed(o, env) ==
    CASE o \in {"GetFeeShareWallet", "CreateTokenLaunchTransaction"} ->
            ~env.Success \/ env.RespStr = <<>>
      [] o \in {"GetTokenLifetimeFees", "GetTokenLaunchCreators"} -> ~env.Success
      [] OTHER -> ~env.Success \/ ~env.RespSet

\* The envelope check of each wrapper: TRUE when the wrapper answers
\* "unexpected response" (feeshare.go:63, 156; analytics.go:43, 89;
\* tokenlaunch.go:154, 173, 199).
EnvelopeRejected(o, env) ==
    CASE o \in {"GetFeeShareWallet", "CreateTokenLaunchTransaction"} ->
            ~env.Success \/ TrimSpace(env.RespStr) = <<>>
      [] o \in {"GetTokenLifetimeFees", "GetTokenLaunchCreators"} -> ~env.Success
      [] OTHER -> ~env.Success \/ ~env.RespSet

\* The value a wrapper returns for an envelope it accepts.
ValueOf(o, env) ==
    CASE ShapeOf(o) = "string" -> StrValue(env.RespStr)
      [] ShapeOf(o) = "slice" -> SliceValue(env.RespSet)
      [] OTHER -> ObjValue

\* The tail of each wrapper, after do returned d: the envelope check and the
\* value returned.
Unwrap(o, d) ==
    IF d.err.kind # "nil" THEN Result(d.err, NoValue)
    ELSE IF o = "Ping"
    THEN IF IsPong(d.env.Message) THEN Result(NoError, NoValue)
         ELSE Result(Err("unexpected ping response"), NoValue)
    ELSE IF EnvelopeRejected(o, d.env) THEN Result(Err("unexpected response"), NoValue)
    ELSE Result(NoError, ValueOf(o, d.env))

\* ------------------------------------------------------ the multipart body
\* What the multipart writer puts into the pipe, one write at a time: the
\* header of a field's part, the field's value, the header of the image
\* part, a chunk of the image, the closing trailer.
Token(t, k, v, c, n) == [t |-> t, k |-> k, v |-> v, c |-> c, n |-> n]

FieldHdr(k) == Token("hdr", k, <<>>, <<>>, 0)
FieldVal(k, v) == Token("val", k, v, <<>>, 0)
ImgHdr(filename, ctype) == Token("imghdr", "image", filename, ctype, 0)
Chunk(i) == Token("chunk", "image", <<>>, <<>>, i)
Trailer == Token("trailer", "", <<>>, <<>>, 0)

\* tokenlaunch.go:115-120  the form fields, in the order they are written,
\* and the member of the request each takes its value from.
FormFields == <<"name", "symbol", "description", "telegram", "twitter", "website">>

MemberOf(k) ==
    CASE k = "name" -> "Name"
      [] k = "symbol" -> "Symbol"
      [] k = "description" -> "Description"
      [] k = "telegram" -> "Telegram"
      [] k = "twitter" -> "Twitter"
      [] k = "website" -> "Website"

FieldValue(input, i) == input[MemberOf(FormFields[i])]

\* FieldWritten comparing the value with "" instead of trimming it.
FieldWrittenUntrimmed(v) == v # <<>>

\* tokenlaunch.go:109-114  writeField writes a field unless it is blank ...
FieldWritten(v) == TrimSpace(v) # <<>>

\* ... and writes the value as given (mw.WriteField(k, v)).
FieldPayload(v) == v

\* tokenlaunch.go:122-125
ImageContentType(input) ==
    IF TrimSpace(input.ImageMIMEType) = <<>> THEN <<"application/octet-stream">>
    ELSE input.ImageMIMEType

\* tokenlaunch.go:106-107  the deferred calls in the order they run when the
\* producer returns: last deferred, first run.
DeferredCalls == <<"pw.Close", "mw.Close">>

\* ---------------------------------------------------------- the producer
\* err is the error the function body ended with, "nil" while there is none.
NoProducer == [pc |-> "none", k |-> 0, nread |-> 0, defers |-> <<>>, err |-> "nil"]

\* The producer past field i: at the header of the next field that is
\* written, or at the header of the image part.
RECURSIVE AfterField(_, _)
AfterField(input, i) ==
    IF i >= Len(FormFields) THEN [NoProducer EXCEPT !.pc = "imghdr"]
    ELSE IF FieldWritten(FieldValue(input, i + 1))
    THEN [NoProducer EXCEPT !.pc = "hdr", !.k = i + 1]
    ELSE AfterField(input, i + 1)

\* The producer returning from the function body with error err: the
\* deferred calls run.
Returning(p, err) ==
    [p EXCEPT !.pc = IF DeferredCalls = <<>> THEN "exited" ELSE "defer",
              !.k = 0, !.defers = DeferredCalls, !.err = err]

\* The producer after one deferred call has run.
AfterDefer(p) ==
    [p EXCEPT !.pc = IF Len(p.defers) <= 1 THEN "exited" ELSE "defer",
              !.defers = Tail(p.defers)]

\* The producer is in a Write on the pipe.
Writing(p) ==
    \/ p.pc \in {"hdr", "val", "imghdr", "write"}
    \/ p.pc = "defer" /\ Head(p.defers) = "mw.Close"

\* The bytes of that Write.
Pending(p, input) ==
    CASE p.pc = "hdr" -> FieldHdr(FormFields[p.k])
      [] p.pc = "val" -> FieldVal(FormFields[p.k], FieldPayload(FieldValue(input, p.k)))
      [] p.pc = "imghdr" -> ImgHdr(input.ImageFilename, ImageContentType(input))
      [] p.pc = "write" -> Chunk(p.nread)
      [] OTHER -> Trailer

\* The producer after the Write returned without error.
AfterWrite(p, input) ==
    CASE p.pc = "hdr" -> [p EXCEPT !.pc = "val"]
      [] p.pc = "val" -> AfterField(input, p.k)
      [] p.pc = "imghdr" -> [p EXCEPT !.pc = "read"]
      [] p.pc = "write" -> [p EXCEPT !.pc = "read"]
      [] OTHER -> AfterDefer(p)

\* The producer after the Write returned an error: a field's error is
\* dropped (tokenlaunch.go:115-120), an error of the image part ends the
\* function (tokenlaunch.go:130-138), mw.Close's error is dropped.
AfterWriteError(p, input) ==
    CASE p.pc \in {"hdr", "val"} -> AfterField(input, p.k)
      [] p.pc \in {"imghdr", "write"} -> Returning(p, "ErrClosedPipe")
      [] OTHER -> AfterDefer(p)

\* ---------------------------------------------------------------- io.Pipe
\* werr and rerr are the errors the write end and the read end were closed
\* with, "none" while the end is open.
OpenPipe == [werr |-> "none", rerr |-> "none"]

PipeDone(p) == p.werr # "none" \/ p.rerr # "none"

\* pw.CloseWithError(err), pw.Close() being CloseWithError(EOF): the first
\* error given is the one kept.
CloseWrite(p, err) == IF p.werr = "none" THEN [p EXCEPT !.werr = err] ELSE p

\* SourceEnd without the call of pw.CloseWithError.
SourceEndNoAbort(p, fails) == p

\* tokenlaunch.go:135-138  the pipe after io.Copy has read the end of the
\* attachment source: closed with the source's error when it ended in one.
SourceEnd(p, fails) == IF fails THEN CloseWrite(p, "source error") ELSE p

\* pr.Close()
CloseRead(p) == IF p.rerr = "none" THEN [p EXCEPT !.rerr = "closed"] ELSE p

\* ------------------------------------------------------------------ inputs
\* Text values: empty, blank, plain, and with a space around it.
Blanks == {<<>>, <<" ">>}

IdValues == {<<>>, <<" ">>, <<"alice123">>, <<" ", "alice123">>}

NilInput == [isNil |-> TRUE]

\* The attachment source: it yields `chunks` chunks and then ends, with an
\* error when `fails`.
Images ==
    {[isNil |-> TRUE, chunks |-> 0, fails |-> FALSE]}
        \cup [isNil : {FALSE}, chunks : 0..MaxChunks, fails : BOOLEAN]

\* The optional texts of a token (description, telegram, twitter, website):
\* none given, all given, and two mixtures of blank and given values.
OptionalTexts ==
    {<< <<>>, <<" ">>, <<>>, <<" ", " ">> >>,
     << <<" ", "about">>, <<"t.me/x">>, <<"@x", " ">>, <<"x.io">> >>,
     << <<" ", "about">>, <<" ">>, <<"@x", " ">>, <<" ", " ">> >>,
     << <<>>, <<"t.me/x">>, <<>>, <<"x.io">> >>}

TokenInfoInputs ==
    { [isNil |-> FALSE, Name |-> n, Symbol |-> sy,
       Description |-> t[1], Telegram |-> t[2], Twitter |-> t[3], Website |-> t[4],
       Image |-> im, ImageFilename |-> fn, ImageMIMEType |-> mt] :
        n \in {<<>>, <<"Token">>}, sy \in {<<" ">>, <<"TKN">>}, t \in OptionalTexts,
        im \in Images, fn \in {<<>>, <<"logo.png">>}, mt \in {<<>>, <<"image/png">>} }

InputsOf(o) ==
    CASE o = "Ping" -> {[isNil |-> FALSE]}
      [] o \in {"GetFeeShareWallet", "GetTokenLifetimeFees", "GetTokenLaunchCreators"} ->
            [isNil : {FALSE}, id : IdValues]
      [] o = "CreateFeeShareConfig" ->
            {NilInput} \cup
            [isNil : {FALSE}, WalletA : {<<>>, <<"A">>}, WalletB : {<<" ">>, <<"B">>},
             Payer : {<<>>, <<"P">>}, BaseMint : {<<" ">>, <<"M">>},
             QuoteMint : {<<>>, <<"wSOL">>}]
      [] o = "CreateTokenInfoAndMetadata" -> {NilInput} \cup TokenInfoInputs
      [] o = "CreateTokenLaunchConfig" ->
            {NilInput} \cup [isNil : {FALSE}, LaunchWallet : Blanks \cup {<<"W">>}]
      [] o = "CreateTokenLaunchTransaction" ->
            {NilInput} \cup
            [isNil : {FALSE}, IPFS : {<<>>, <<"ipfs://x">>}, TokenMint : {<<" ">>, <<"M">>},
             Wallet : {<<>>, <<"W">>}, ConfigKey : {<<" ">>, <<"K">>}]

\* Client configurations: the one New builds, and one whose BaseURL the
\* caller has set to a string url.Parse rejects.
Clients ==
    {DefaultClient, [DefaultClient EXCEPT !.BaseURL = <<"https://public-api-v2.bags.fm", Ctl>>]}

\* -------------------------------------------------------------- responses
StatusCodes == {199, 200, 299, 300, 404}

StatusLine(code) ==
    CASE code = 199 -> "199 "
      [] code = 200 -> "200 OK"
      [] code = 299 -> "299 "
      [] code = 300 -> "300 Multiple Choices"
      [] code = 404 -> "404 Not Found"
      [] OTHER -> "000"

RawLens == {0, 1, SnippetCap - 1, SnippetCap, SnippetCap + 1, ReadLimit, ReadLimit + 1}

SuccessKeys == {<<>>, <<JBool(TRUE)>>, <<JBool(FALSE)>>, <<JStr(<<"yes">>)>>}

ErrorKeys == {<<>>, <<JStr(<<>>)>>, <<JStr(<<"bad mint">>)>>}

StatusKeys == {<<>>, <<JNum(0)>>, <<JNum(422)>>}

ResponseKeys ==
    {<<>>, <<JNull>>, <<JStr(<<>>)>>, <<JStr(<<" ">>)>>, <<JStr(<<"WalletAddr111">>)>>,
     <<JObj>>, <<JArr>>}

MessageKeys == {<<JStr(<<"pong">>)>>, <<JStr(<<"Pong">>)>>, <<JStr(<<"nope">>)>>}

Bodies ==
    { RawBody(n) : n \in RawLens } \cup {NullBody}
        \cup { ObjBody(su, er, st, <<>>, <<>>) :
                 su \in SuccessKeys, er \in ErrorKeys, st \in StatusKeys }
        \cup { ObjBody(su, <<>>, <<>>, re, <<>>) : su \in SuccessKeys, re \in ResponseKeys }
        \cup { ObjBody(<<>>, <<>>, <<>>, <<>>, me) : me \in MessageKeys }

Responses == { DoResponse(c, StatusLine(c), b) : c \in StatusCodes, b \in Bodies }

\* ------------------------------------------------------------------- state
VARIABLES
    cfg,        \* the BagsClient
    ctx,        \* the caller's context: "live" or "cancelled" (deadline included)
    op,         \* the wrapper called, "none" before the call
    in,         \* its argument
    pc,         \* the caller: "idle", "inflight" (inside HTTP.Do), "done"
    req,        \* the request newRequest built
    calls,      \* how many times HTTP.Do was called
    tpc,        \* the transport: "none", "sending", "sent", "returned"
    tres,       \* what HTTP.Do returned
    pipe,       \* the io.Pipe of the upload
    prod,       \* the producer goroutine
    observed,   \* what the transport has read from the request body
    bodyEnd,    \* how the request body ended for the transport: "none", "EOF" or an error
    result      \* what the wrapper returned

vars == <<cfg, ctx, op, in, pc, req, calls, tpc, tres, pipe, prod, observed, bodyEnd, result>>

NoResult == Result(NoError, NoValue)

Idle ==
    /\ ctx = "live"
    /\ op = "none"
    /\ in = [isNil |-> TRUE]
    /\ pc = "idle"
    /\ req = NoRequest
    /\ calls = 0
    /\ tpc = "none"
    /\ tres = DoError("")
    /\ pipe = OpenPipe
    /\ prod = NoProducer
    /\ observed = <<>>
    /\ bodyEnd = "none"
    /\ result = NoResult

Init == cfg \in Clients /\ Idle

\* A wrapper is called.  Local validation first; then, for the upload, the
\* pipe and the producer goroutine (tokenlaunch.go:101-139); then newRequest;
\* then do, which calls HTTP.Do (client.go:115).
Invoke(o, input) ==
    /\ pc = "idle"
    /\ op' = o
    /\ in' = input
    /\ UNCHANGED <<cfg, ctx, tres, pipe, observed, bodyEnd>>
    /\ IF ~Valid(o, input)
       THEN /\ result' = Result(Err("validation"), NoValue)
            /\ pc' = "done"
            /\ UNCHANGED <<req, calls, tpc, prod>>
       ELSE LET r == newRequest(cfg, MethodOf(o), RelPathOf(o, input), BodyOf(o),
                                ContentTypeOf(o))
            IN  /\ prod' = IF BodyOf(o) = "pipe" THEN AfterField(input, 0) ELSE prod
                /\ req' = r
                /\ IF ~r.ok
                   THEN /\ result' = Result(Err("parse base URL"), NoValue)
                        /\ pc' = "done"
                        /\ UNCHANGED <<calls, tpc>>
                   ELSE /\ calls' = calls + 1
                        /\ tpc' = IF BodyOf(o) = "pipe" THEN "sending" ELSE "sent"
                        /\ pc' = "inflight"
                        /\ UNCHANGED result

\* The transport reads the request body while the producer is in a Write:
\* the bytes pass from the one to the other and the Write returns.
PipeTransfer ==
    /\ tpc = "sending"
    /\ Writing(prod)
    /\ ~PipeDone(pipe)
    /\ observed' = Append(observed, Pending(prod, in))
    /\ prod' = AfterWrite(prod, in)
    /\ UNCHANGED <<cfg, ctx, op, in, pc, req, calls, tpc, tres, pipe, bodyEnd, result>>

\* A Write on a pipe that is closed (at either end) returns an error.  An
\* error writing the image part closes the pipe with it (tokenlaunch.go:132,
\* 136).
ProducerWriteFail ==
    /\ Writing(prod)
    /\ PipeDone(pipe)
    /\ prod' = AfterWriteError(prod, in)
    /\ pipe' = IF prod.pc \in {"imghdr", "write"} THEN CloseWrite(pipe, "ErrClosedPipe")
               ELSE pipe
    /\ UNCHANGED <<cfg, ctx, op, in, pc, req, calls, tpc, tres, observed, bodyEnd, result>>

\* io.Copy reads the attachment source (tokenlaunch.go:135): a chunk, which
\* it then writes; the end, and the function body is over; or an error, and
\* the pipe is closed with it (tokenlaunch.go:136).
ProducerReadSource ==
    /\ prod.pc = "read"
    /\ IF prod.nread < in.Image.chunks
       THEN /\ prod' = [prod EXCEPT !.pc = "write", !.nread = prod.nread + 1]
            /\ UNCHANGED pipe
       ELSE /\ prod' = Returning(prod, IF in.Image.fails THEN "source error" ELSE "nil")
            /\ pipe' = SourceEnd(pipe, in.Image.fails)
    /\ UNCHANGED <<cfg, ctx, op, in, pc, req, calls, tpc, tres, observed, bodyEnd, result>>

\* The deferred pw.Close() runs (tokenlaunch.go:107).
ProducerClosePipe ==
    /\ prod.pc = "defer"
    /\ Head(prod.defers) = "pw.Close"
    /\ pipe' = CloseWrite(pipe, "EOF")
    /\ prod' = AfterDefer(prod)
    /\ UNCHANGED <<cfg, ctx, op, in, pc, req, calls, tpc, tres, observed, bodyEnd, result>>

\* The transport reads a request body whose write end is closed: at EOF the
\* request is sent; on an error HTTP.Do fails with it and closes the body.
TransportReadEnd ==
    /\ tpc = "sending"
    /\ pipe.rerr = "none"
    /\ pipe.werr # "none"
    /\ bodyEnd' = pipe.werr
    /\ IF pipe.werr = "EOF"
       THEN /\ tpc' = "sent"
            /\ UNCHANGED <<tres, pipe>>
       ELSE /\ tpc' = "returned"
            /\ tres' = DoError(pipe.werr)
            /\ pipe' = CloseRead(pipe)
    /\ UNCHANGED <<cfg, ctx, op, in, pc, req, calls, prod, observed, result>>

\* The network fails while the request is being sent or the answer awaited:
\* HTTP.Do returns an error and closes the request body.
TransportFail ==
    /\ tpc \in {"sending", "sent"}
    /\ tpc' = "returned"
    /\ tres' = DoError("network error")
    /\ pipe' = IF req.Body = "pipe" THEN CloseRead(pipe) ELSE pipe
    /\ UNCHANGED <<cfg, ctx, op, in, pc, req, calls, prod, observed, bodyEnd, result>>

\* The caller cancels the context, or its deadline passes, while HTTP.Do has
\* not returned.
Cancel ==
    /\ pc = "inflight"
    /\ tpc \in {"sending", "sent"}
    /\ ctx = "live"
    /\ ctx' = "cancelled"
    /\ UNCHANGED <<cfg, op, in, pc, req, calls, tpc, tres, pipe, prod, observed, bodyEnd,
                   result>>

\* The context of the request in flight is done.
Aborted == ctx = "cancelled" /\ req.Ctx = "caller"

\* The context of the request is done while the request is being sent or the
\* answer awaited: HTTP.Do returns the context's error and closes the request
\* body.
TransportCancel ==
    /\ tpc \in {"sending", "sent"}
    /\ Aborted
    /\ tpc' = "returned"
    /\ tres' = DoError("context canceled")
    /\ pipe' = IF req.Body = "pipe" THEN CloseRead(pipe) ELSE pipe
    /\ UNCHANGED <<cfg, ctx, op, in, pc, req, calls, prod, observed, bodyEnd, result>>

\* The server answers the request it was sent: HTTP.Do returns the response
\* and closes the request body.  It returns no response once the context of
\* the request is done.
TransportRespond(r) ==
    /\ tpc = "sent"
    /\ ~Aborted
    /\ tpc' = "returned"
    /\ tres' = r
    /\ pipe' = IF req.Body = "pipe" THEN CloseRead(pipe) ELSE pipe
    /\ UNCHANGED <<cfg, ctx, op, in, pc, req, calls, prod, observed, bodyEnd, result>>

\* HTTP.Do has returned: the rest of do (client.go:116-142) and the tail of
\* the wrapper.
Finish ==
    /\ pc = "inflight"
    /\ tpc = "returned"
    /\ result' = Unwrap(op, do(tres, ShapeOf(op)))
    /\ pc' = "done"
    /\ UNCHANGED <<cfg, ctx, op, in, req, calls, tpc, tres, pipe, prod, observed, bodyEnd>>

ProducerStep == ProducerWriteFail \/ ProducerReadSource \/ ProducerClosePipe

TransportStep ==
    \/ PipeTransfer
    \/ TransportReadEnd
    \/ TransportFail
    \/ TransportCancel
    \/ \E r \in Responses : TransportRespond(r)

Next ==
    \/ \E o \in Ops : \E input \in InputsOf(o) : Invoke(o, input)
    \/ PipeTransfer
    \/ ProducerWriteFail
    \/ ProducerReadSource
    \/ ProducerClosePipe
    \/ TransportReadEnd
    \/ TransportFail
    \/ Cancel
    \/ TransportCancel
    \/ \E r \in Responses : TransportRespond(r)
    \/ Finish

Spec == Init /\ [][Next]_vars

\* The goroutine runs, the transport makes progress and returns, the caller
\* goes on when HTTP.Do has returned.
FairSpec ==
    /\ Spec
    /\ WF_vars(ProducerStep)
    /\ WF_vars(TransportStep)
    /\ WF_vars(Finish)

\* ------------------------------------------- newRequest on any relative path
PathAtoms == {"/", ".", "x", "?"}

RelPaths == SeqsUpTo(PathAtoms, MaxRelLen)

\* The configured base endpoint with and without its trailing separator.
PathClients ==
    {DefaultClient, [DefaultClient EXCEPT !.BaseURL = TrimSuffixSlash(DefaultBaseURL)]}

PathInit == cfg \in PathClients /\ Idle

\* get and postJSON hand their relPath to newRequest (client.go:69, 85).
PathNewRequest(method, rel) ==
    /\ pc = "idle"
    /\ op' = "newRequest"
    /\ in' = [isNil |-> FALSE, relPath |-> rel]
    /\ req' = newRequest(cfg, method, rel, IF method = "GET" THEN "none" ELSE "json",
                         IF method = "GET" THEN "" ELSE "application/json")
    /\ pc' = "done"
    /\ UNCHANGED <<cfg, ctx, calls, tpc, tres, pipe, prod, observed, bodyEnd, result>>

PathNext == \E method \in {"GET", "POST"} : \E rel \in RelPaths : PathNewRequest(method, rel)

SpecPath == PathInit /\ [][PathNext]_vars

\* The path of the configured base endpoint, without a trailing separator.
BasePrefix(c) == TrimSuffixSlash(urlParse(c.BaseURL).Path)

\* Path p lies under prefix q: it is q, or q followed by a separator and more.
Under(p, q) == p = q \/ HasPrefix(p, q \o <<"/">>)

\* C3: for every relative path handed to newRequest, '..' segments included,
\* the path of the request URL stays under the path of the configured base
\* endpoint.
C3_StaysUnderPrefix ==
    (op = "newRequest" /\ req.ok) => Under(req.URL.Path, BasePrefix(cfg))

\* --------------------------------------------------- the upload's stream
Upload == op = "CreateTokenInfoAndMetadata"

RECURSIVE FieldParts(_, _)
FieldParts(input, i) ==
    IF i > Len(FormFields) THEN <<>>
    ELSE (IF TrimSpace(FieldValue(input, i)) # <<>>
          THEN <<FieldHdr(FormFields[i]), FieldVal(FormFields[i], FieldValue(input, i))>>
          ELSE <<>>) \o FieldParts(input, i + 1)

ImagePart(input) ==
    <<ImgHdr(input.ImageFilename, ImageContentType(input))>>
        \o [i \in 1..input.Image.chunks |-> Chunk(i)]

\* C1: when the attachment source is read to its end without error, the
\* reader of the pipe sees the parts of the non-blank fields, the image part
\* and then the closing trailer, and sees the end of the stream only after the
\* trailer.
C1_TrailerBeforeEOF ==
    (Upload /\ bodyEnd = "EOF") =>
        observed = FieldParts(in, 1) \o ImagePart(in) \o <<Trailer>>

\* The producer has read an error from the attachment source.
SourceFailed == Upload /\ prod.err = "source error"

\* C2: when the attachment source returns a read error during the streaming
\* copy, the pipe is closed with that error, the reader never sees a clean end
\* of the stream, the operation returns an error and no result, and both the
\* producer and the caller come to an end.
C2_SourceErrorPropagates ==
    /\ [](SourceFailed => pipe.werr = "source error")
    /\ []((Upload /\ prod.pc # "none" /\ in.Image.fails) => bodyEnd # "EOF")
    /\ []((SourceFailed /\ bodyEnd # "none") =>
              (bodyEnd = "source error" /\ tres = DoError("source error")))
    /\ []((SourceFailed /\ pc = "done") =>
              (result.err.kind # "nil" /\ result.val = NoValue))
    /\ (SourceFailed ~> (pc = "done" /\ prod.pc = "exited"))

\* C2 witness: the source failed after a chunk had been sent, the reader saw
\* the error and the call returned it.
C2_Witness ==
    /\ SourceFailed
    /\ in.Image.chunks > 0
    /\ bodyEnd = "source error"
    /\ pc = "done"
    /\ prod.pc = "exited"
    /\ result.err = TransportError("source error")

\* ------------------------------------------------------------ GET requests
GetOps == {"GetFeeShareWallet", "GetTokenLifetimeFees", "GetTokenLaunchCreators"}

\* C4: the request of a GET wrapper called with a non-blank identifier has
\* the base prefix joined with the endpoint path as its URL path and carries
\* the identifier in the query string, not in the path.
C4_IdentifierInQuery ==
    (op \in GetOps /\ pc # "idle" /\ req.ok) =>
        /\ req.URL.Path = BasePrefix(cfg) \o <<"/">> \o EndpointOf(op)
        /\ req.URL.RawQuery = ValuesEncode(QueryKeyOf(op), QueryValueOf(op, in))

\* --------------------------------------------------------------- responses
\* The call is over and HTTP.Do had returned a response.
Answered == pc = "done" /\ tpc = "returned" /\ ~tres.isErr

Non2xx == Answered /\ ~Is2xx(tres.StatusCode)

\* The body is JSON that fits the error envelope: null, or an object whose
\* success, error and status, where it has them, are a boolean, a string and
\* a number.
FitsErrorEnvelope(b) ==
    /\ b.kind # "raw"
    /\ \A f \in {b.success} : f = <<>> \/ f[1].t \in {"bool", "null"}
    /\ \A f \in {b.error} : f = <<>> \/ f[1].t \in {"str", "null"}
    /\ \A f \in {b.status} : f = <<>> \/ f[1].t \in {"num", "null"}

\* The payload says it is a failure: success is there and false, or the
\* error message is there and not empty.
IndicatesFailure(b) ==
    /\ b.kind = "obj"
    /\ \/ b.success = <<JBool(FALSE)>>
       \/ b.error # <<>> /\ b.error[1].t = "str" /\ b.error[1].s # <<>>

\* C5: for a response that is not 2xx, do returns the structured error when
\* the body decodes as the error envelope and carries an explicit
\* success=false or a non-empty message, and the generic error with the
\* status line in every other case ({} and {"success":true} among them).
C5_StructuredIffExplicitFailure ==
    Non2xx =>
        IF FitsErrorEnvelope(tres.Body) /\ IndicatesFailure(tres.Body)
        THEN result.err.kind = "api"
        ELSE result.err.kind = "generic" /\ result.err.statusLine = tres.Status

\* The body is {"success":false,"error":M}, with or without a status.
FailureBody(b) ==
    /\ b.kind = "obj"
    /\ b.success = <<JBool(FALSE)>>
    /\ b.error # <<>> /\ b.error[1].t = "str"
    /\ b.status = <<>> \/ b.status[1].t = "num"
    /\ b.response = <<>> /\ b.message = <<>>

\* The status a body gives: 0 when it gives none.
GivenStatus(b) == IF b.status = <<>> THEN 0 ELSE b.status[1].n

\* C6: a response that is not 2xx with body {"success":false,"error":M}
\* yields the structured error with message M and the status of the body, or
\* the HTTP status code when the body gives none; the status of a structured
\* error is never 0.
C6_StructuredErrorStatus ==
    /\ (Non2xx /\ FailureBody(tres.Body)) =>
          /\ result.err.kind = "api"
          /\ result.err.msg = tres.Body.error[1].s
          /\ result.err.status = IF GivenStatus(tres.Body) # 0 THEN GivenStatus(tres.Body)
                                 ELSE tres.StatusCode
          /\ result.val = NoValue
    /\ (pc = "done" /\ result.err.kind = "api") => result.err.status # 0

\* C6 witness: {"success":false,"error":"bad mint"} without a status, on a
\* 404, came back as a structured error with status 404.
C6_Witness ==
    /\ Non2xx
    /\ tres.StatusCode = 404
    /\ tres.Body = ObjBody(<<JBool(FALSE)>>, <<JStr(<<"bad mint">>)>>, <<>>, <<>>, <<>>)
    /\ result.err = APIError(404, <<"bad mint">>)

\* C7 as stated: a non-JSON body on a response that is not 2xx yields the
\* generic error with the status line, and the snippet in its message is never
\* longer than the cap.
C7_SnippetWithinCap ==
    (Non2xx /\ tres.Body.kind = "raw") =>
        /\ result.err.kind = "generic"
        /\ result.err.statusLine = tres.Status
        /\ SnippetLen(result.err) <= SnippetCap

\* C7 as amended: the snippet holds the body up to the cap, the first
\* SnippetCap bytes of a longer body, which are then followed by the
\* truncation marker; so it is never longer than the cap and the marker.
C7_SnippetBodyWithinCap ==
    (Non2xx /\ tres.Body.kind = "raw") =>
        /\ result.err.kind = "generic"
        /\ result.err.statusLine = tres.Status
        /\ result.val = NoValue
        /\ result.err.snippetBytes <= SnippetCap
        /\ tres.Body.len <= SnippetCap =>
              (result.err.snippetBytes = tres.Body.len /\ ~result.err.marked)
        /\ tres.Body.len > SnippetCap =>
              (result.err.snippetBytes = SnippetCap /\ result.err.marked)
        /\ SnippetLen(result.err) <= SnippetCap + EllipsisLen

\* C7 witness: a body of more than a megabyte came back as a generic error
\* with a cut and marked snippet.
C7_Witness ==
    /\ Non2xx
    /\ tres.Body = RawBody(ReadLimit + 1)
    /\ result.err.kind = "generic"
    /\ result.err.snippetBytes = SnippetCap
    /\ result.err.marked

\* ---------------------------------------------------------------- envelopes
NonEmptyStringOps == {"GetFeeShareWallet", "CreateTokenLaunchTransaction"}

PresentOps == {"CreateTokenInfoAndMetadata", "CreateTokenLaunchConfig", "CreateFeeShareConfig"}

SaysSuccess(b) == b.kind = "obj" /\ b.success = <<JBool(TRUE)>>

\* The response of the envelope is missing or null.
MissingResponse(b) == b.response = <<>> \/ b.response[1].t = "null"

\* The response is empty for the wrapper: missing, or for a wrapper that
\* returns a string, a blank string.
EmptyResponse(o, b) ==
    \/ MissingResponse(b)
    \/ o \in NonEmptyStringOps /\ b.response[1].t = "str"
            /\ TrimSpace(b.response[1].s) = <<>>

\* C8: a wrapper returns a result with a nil error only for a 2xx envelope
\* with success=true; and the wrappers whose result must not be empty answer
\* a 2xx envelope with success=true and an empty or missing response with the
\* "unexpected response" error and no result.
C8_OnlyTrustedSuccess ==
    /\ (pc = "done" /\ op # "Ping" /\ result.err.kind = "nil") =>
          (Answered /\ Is2xx(tres.StatusCode) /\ SaysSuccess(tres.Body))
    /\ (pc = "done" /\ result.err.kind # "nil") => result.val = NoValue
    /\ (Answered /\ Is2xx(tres.StatusCode) /\ SaysSuccess(tres.Body)
            /\ op \in NonEmptyStringOps \cup PresentOps
            /\ EmptyResponse(op, tres.Body)) =>
          (result.err = Err("unexpected response") /\ result.val = NoValue)

\* C8 witness: the fee-share wallet lookup got 200 with success=true and a
\* blank response, and answered "unexpected response".
C8_Witness ==
    /\ Answered
    /\ op = "GetFeeShareWallet"
    /\ tres.StatusCode = 200
    /\ tres.Body = ObjBody(<<JBool(TRUE)>>, <<>>, <<>>, <<JStr(<<" ">>)>>, <<>>)
    /\ result = Result(Err("unexpected response"), NoValue)

\* ------------------------------------------------------------ network calls
\* Local validation fails: the request is nil or a mandatory field is blank.
LocallyInvalid ==
    \/ in.isNil
    \/ \E f \in RequiredOf(op) : TrimSpace(in[f]) = <<>>
    \/ op = "CreateTokenInfoAndMetadata" /\ in.Image.isNil

\* C9: a call that fails local validation makes no call on the transport and
\* returns a validation error; a call whose validation and request
\* construction succeed makes exactly one, whatever its outcome.
C9_OneCallPerInvocation ==
    /\ calls <= 1
    /\ (pc # "idle" /\ LocallyInvalid) =>
          (calls = 0 /\ pc = "done" /\ result.err.kind = "validation")
    /\ (pc # "idle" /\ ~LocallyInvalid /\ ~req.ok) => calls = 0
    /\ (pc # "idle" /\ ~LocallyInvalid /\ req.ok) => calls = 1

\* C9 witness: CreateTokenLaunchConfig with a blank launchWallet returned a
\* validation error without a call.
C9_Witness ==
    /\ op = "CreateTokenLaunchConfig"
    /\ pc = "done"
    /\ ~in.isNil
    /\ in.LaunchWallet = <<" ">>
    /\ calls = 0
    /\ result.err.kind = "validation"

\* ------------------------------------------------------------- form fields
\* The tokens of kind t for field k among those read.
Parts(t, k) == { i \in 1..Len(observed) : observed[i].t = t /\ observed[i].k = k }

\* The reader has got to the image part: every field was written before it.
FieldsSent == \E i \in 1..Len(observed) : observed[i].t = "imghdr"

\* C10: in the body of the upload a text field that is blank does not appear,
\* and one that is not blank appears once, with the caller's value unchanged.
C10_FieldsOnceOrOmitted ==
    (Upload /\ prod.pc # "none") =>
        \A i \in 1..Len(FormFields) :
            LET k == FormFields[i]
                v == FieldValue(in, i)
            IN  /\ Cardinality(Parts("hdr", k)) <= 1
                /\ Cardinality(Parts("val", k)) <= 1
                /\ \A j \in Parts("val", k) :
                      /\ observed[j].v = v
                      /\ j > 1 /\ observed[j - 1] = FieldHdr(k)
                /\ TrimSpace(v) = <<>> => (Parts("hdr", k) = {} /\ Parts("val", k) = {})
                /\ (TrimSpace(v) # <<>> /\ FieldsSent) =>
                      (Cardinality(Parts("hdr", k)) = 1 /\ Cardinality(Parts("val", k)) = 1)

\* C10 witness: a whole body was read in which a value with a space around it
\* was sent as given and a blank field was left out.
C10_Witness ==
    /\ Upload
    /\ bodyEnd = "EOF"
    /\ in.Description = <<" ", "about">>
    /\ in.Telegram = <<" ">>
    /\ \E j \in 1..Len(observed) : observed[j] = FieldVal("description", <<" ", "about">>)
    /\ Parts("hdr", "telegram") = {}

\* --------------------------------------- newRequest for any configuration
\* UserAgent is a public field of BagsClient (client.go:29): the caller may
\* leave it as New set it, blank it, or put a name of their own in it.
UserAgents == {UserAgentDefault, <<>>, <<" ">>, <<" ", "my-app/1.0", " ">>}

BuildClients ==
    {[c EXCEPT !.UserAgent = ua] : c \in Clients \cup PathClients, ua \in UserAgents}

BuildInit == cfg \in BuildClients /\ Idle

\* Every wrapper, up to the return of newRequest.
BuildNext == \E o \in Ops : \E input \in InputsOf(o) : Invoke(o, input)

SpecBuild == BuildInit /\ [][BuildNext]_vars

\* C11: every request newRequest builds, whatever the client configuration
\* and the operation, has the API key in x-api-key, Accept: application/json
\* and a User-Agent header, and a POST request has the content type it was
\* given.
C11_HeadersOnEveryRequest ==
    req.ok =>
        /\ req.XApiKey = <<cfg.APIKey>>
        /\ req.Accept = <<"application/json">>
        /\ req.UserAgent # <<>>
        /\ req.Method = "POST" => req.ContentType = <<ContentTypeOf(op)>>

\* ------------------------------------------------------------ cancellation
\* The caller's context was cancelled while HTTP.Do had not returned.
Cancelled == ctx = "cancelled"

\* C12: for every operation, when the caller's context is cancelled (or its
\* deadline passes) while the network call is in flight, HTTP.Do returns an
\* error, the operation returns, and what it returns is a non-nil error and
\* no result; for the upload this holds whether the producer is blocked in a
\* write to the pipe or has finished.
C12_CancelAborts ==
    /\ []((Cancelled /\ tpc = "returned") => tres.isErr)
    /\ []((Cancelled /\ pc = "done") => (result.err # NoError /\ result.val = NoValue))
    /\ (Cancelled ~> pc = "done")

\* An upload was aborted by the cancellation before the transport had seen
\* the end of the request body, and has returned.
C12_Witness ==
    /\ Upload
    /\ Cancelled
    /\ pc = "done"
    /\ bodyEnd = "none"
    /\ result.err = TransportError("context canceled")

\* ------------------------------------------------- the producer's lifetime
\* The upload has started its producer goroutine.
Started == Upload /\ prod.pc # "none"

\* Both ends of the pipe are closed and the goroutine is over.
Released == prod.pc = "exited" /\ pipe.werr # "none" /\ pipe.rerr # "none"

\* C13: on every exit of CreateTokenInfoAndMetadata after the producer was
\* started (request construction failure, transport error, non-2xx response,
\* decode error, success) both ends of the pipe come to be closed and the
\* producer comes to its end: it does not stay blocked in a pipe write that
\* nobody will read.
C13_ProducerReleased == (Started /\ pc = "done") ~> Released


====
